---- MODULE Spec2Model ----
(***************************************************************************)
(* Fake News Sniff (backend/server.py): the /api/analyze request handler,  *)
(* the credibility scoring engine NewsCredibilityAnalyzer and its two      *)
(* collaborators (NewsContentExtractor, GoogleSearchScraper), as a state   *)
(* machine of one request at a time.                                       *)
(*                                                                         *)
(* A Python str is a sequence of characters (one-character strings); the   *)
(* accented letters of the source are written as two-character tokens      *)
(* ("A^" for A-circumflex, "A'" for A-acute, "A~" for A-tilde, "C_" for    *)
(* C-cedilla, and their lower-case forms), one token per character.        *)
(* None is <<>> and a present optional value v is <<v>>.                    *)
(***************************************************************************)
EXTENDS Integers, Sequences, FiniteSets, TLC

VARIABLES
  pc,               \* position of the request in analyze_news / analyze_news_credibility
  url_or_text,      \* request.url_or_text
  is_url,           \* validators.url(url_or_text)
  extract_env,      \* what the network did to extract_from_url in this request
  original_content, \* the content record (dict) under analysis
  content_summary,
  search_query,
  suspicious_found,
  search_env,       \* what the search collaborator did in this request
  search_results,   \* the list search_google returned
  search_calls,     \* arguments of every search_google call of this request
  suspicion_score,  \* the running accumulator
  factors,
  sources_checked,
  analysis_details,
  result,           \* the dict analyze_news_credibility returned, <<>> before
  db_insert,        \* "none" | "ok" | "failed": db.analyses.insert_one of this request
  db_record,        \* the document handed to insert_one
  response,         \* the HTTP response, <<>> while the request is in flight
  prev              \* history: the inputs and outcome of the previous analysis

vars ==
  <<pc, url_or_text, is_url, extract_env, original_content, content_summary,
    search_query, suspicious_found, search_env, search_results, search_calls,
    suspicion_score, factors, sources_checked, analysis_details, result,
    db_insert, db_record, response, prev>>

(***************************************************************************)
(* Bounds of the model.                                                    *)
(***************************************************************************)
\* Result pages of every composition are enumerated up to this many containers.
MaxHits ==
  3
\* Longer pages are MaxRun containers of one kind followed by up to MaxTail of another.
MaxTail ==
  4

(***************************************************************************)
(* Strings.                                                                *)
(***************************************************************************)
None ==
  <<>>
Some(v) ==
  <<v>>

UpperChars ==
  <<"A","B","C","D","E","F","G","H","I","J","K","L","M","N","O","P","Q","R","S","T","U",
    "V","W","X","Y","Z","A^","A'","A~","C_">>
LowerChars ==
  <<"a","b","c","d","e","f","g","h","i","j","k","l","m","n","o","p","q","r","s","t","u",
    "v","w","x","y","z","a^","a'","a~","c_">>
Whitespace ==
  {" ", "\t", "\n"}

\* str.lower() of one character.
LowerChar(c) ==
  IF \E i \in 1..Len(UpperChars) : UpperChars[i] = c
  THEN LowerChars[CHOOSE i \in 1..Len(UpperChars) : UpperChars[i] = c]
  ELSE c
\* s.lower()
Lower(s) ==
  [i \in 1..Len(s) |-> LowerChar(s[i])]
Min(a, b) ==
  IF a <= b THEN a ELSE b
Max(a, b) ==
  IF a >= b THEN a ELSE b
\* s[:n]
Take(s, n) ==
  SubSeq(s, 1, Min(n, Len(s)))
\* s[n:]
Drop(s, n) ==
  SubSeq(s, Min(n, Len(s)) + 1, Len(s))
\* Python's `needle in hay` for strings
Contains(needle, hay) ==
  \E i \in 1..(Len(hay) - Len(needle) + 1) :
    \A j \in 1..Len(needle) : hay[i + j - 1] = needle[j]
\* s.startswith(p)
StartsWith(s, p) ==
  Len(s) >= Len(p) /\ \A j \in 1..Len(p) : s[j] = p[j]
\* s.strip()
Strip(s) ==
  LET keep == {i \in 1..Len(s) : s[i] \notin Whitespace}
  IN  IF keep = {} THEN <<>>
      ELSE SubSeq(s, CHOOSE i \in keep : \A j \in keep : i <= j,
                     CHOOSE i \in keep : \A j \in keep : i >= j)
\* s.find(c) for a character c: the first index (1-based), 0 when absent
Find(s, c) ==
  IF \E i \in 1..Len(s) : s[i] = c
  THEN CHOOSE i \in 1..Len(s) : s[i] = c /\ \A j \in 1..(i - 1) : s[j] # c
  ELSE 0
\* sep.join(parts)
RECURSIVE Join(_, _)
Join(sep, parts) ==
  IF Len(parts) = 0 THEN <<>>
  ELSE IF Len(parts) = 1 THEN parts[1]
  ELSE parts[1] \o sep \o Join(sep, Tail(parts))
\* str(n) for 0 <= n <= 99
Digits ==
  <<"0","1","2","3","4","5","6","7","8","9">>
Str(n) ==
  IF n < 10 THEN <<Digits[n + 1]>> ELSE <<Digits[(n \div 10) + 1], Digits[(n % 10) + 1]>>

(***************************************************************************)
(* NewsCredibilityAnalyzer.__init__: the fixed tables.                      *)
(***************************************************************************)
reliable_sources ==
  <<<<"g","1",".","g","l","o","b","o",".","c","o","m">>,
    <<"f","o","l","h","a",".","u","o","l",".","c","o","m",".","b","r">>,
    <<"e","s","t","a","d","a","o",".","c","o","m",".","b","r">>,
    <<"b","b","c",".","c","o","m">>,
    <<"r","e","u","t","e","r","s",".","c","o","m">>,
    <<"c","n","n",".","c","o","m",".","b","r">>,
    <<"u","o","l",".","c","o","m",".","b","r">>,
    <<"v","e","j","a",".","a","b","r","i","l",".","c","o","m",".","b","r">>,
    <<"o","g","l","o","b","o",".","g","l","o","b","o",".","c","o","m">>,
    <<"t","e","r","r","a",".","c","o","m",".","b","r">>,
    <<"r","7",".","c","o","m">>,
    <<"a","g","e","n","c","i","a","b","r","a","s","i","l",".","e","b","c",".","c","o","m",".","b","r">>>>
suspicious_patterns ==
  <<<<"U","R","G","E","N","T","E">>,
    <<"B","O","M","B","A">>,
    <<"E","S","C","A^","N","D","A","L","O">>,
    <<"C","H","O","C","A","N","T","E">>,
    <<"I","N","A","C","R","E","D","I","T","A'","V","E","L">>,
    <<"E","X","C","L","U","S","I","V","O">>,
    <<"R","E","V","E","L","A","C_","A~","O">>,
    <<"S","E","G","R","E","D","O">>,
    <<"C","O","N","S","P","I","R","A","C_","A~","O">>>>

(***************************************************************************)
(* Request inputs.                                                         *)
(***************************************************************************)
TextEmpty ==
  <<>>
TextBlank ==
  <<" ","\t"," ">>
\* the sample of the integration test, in mixed case
TextShort ==
  <<"U","R","G","E","N","T","E","!"," ","B","o","m","b","a","!"," ","e","s","c","a^","n","d",
    "a","l","o">>
\* every sensational marker at once
TextAllMarkers ==
  <<"U","R","G","E","N","T","E"," ","B","O","M","B","A"," ","E","S","C","A^","N","D","A","L",
    "O"," ","C","H","O","C","A","N","T","E"," ","I","N","A","C","R","E","D","I","T","A'","V",
    "E","L"," ","E","X","C","L","U","S","I","V","O"," ","R","E","V","E","L","A","C_","A~","O",
    " ","S","E","G","R","E","D","O"," ","C","O","N","S","P","I","R","A","C_","A~","O">>
\* the normal text of backend_test.py: more than 100 and fewer than 200 characters
TextNormal ==
  <<"O"," ","p","r","e","s","i","d","e","n","t","e"," ","p","a","r","t","i","c","i","p","o","u",
    " ","d","e"," ","u","m","a"," ","r","e","u","n","i","a~","o"," ","s","o","b","r","e"," ",
    "p","o","l","i'","t","i","c","a","s"," ","p","u'","b","l","i","c","a","s"," ","n","a"," ",
    "m","a","n","h","a~"," ","d","e","s","t","a"," ","t","e","r","c_","a","-","f","e","i","r",
    "a",","," ","c","o","n","f","o","r","m","e"," ","i","n","f","o","r","m","a","d","o"," ","p",
    "e","l","a"," ","a","s","s","e","s","s","o","r","i","a"," ","d","e"," ","i","m","p","r","e",
    "n","s","a",".">>
\* 200 characters or more
TextLong ==
  TextNormal \o <<" ">> \o TextNormal
UrlG1 ==
  <<"h","t","t","p","s",":","/","/","g","1",".","g","l","o","b","o",".","c","o","m","/","n">>
UrlWwwG1 ==
  <<"h","t","t","p","s",":","/","/","w","w","w",".","g","1",".","g","l","o","b","o",".","c","o",
    "m","/","n">>
UrlFakeNet ==
  <<"h","t","t","p","s",":","/","/","g","1",".","g","l","o","b","o",".","c","o","m",".","f","a",
    "k","e",".","n","e","t","/","n">>
UrlUpper ==
  <<"h","t","t","p","s",":","/","/","G","1",".","G","L","O","B","O",".","C","O","M","/","n">>
UrlUnknown ==
  <<"h","t","t","p","s",":","/","/","b","l","o","g",".","e","x","a","m","p","l","e",".","o","r",
    "g","/","n">>
Texts ==
  {TextShort, TextAllMarkers, TextNormal, TextLong}
Urls ==
  {UrlG1, UrlWwwG1, UrlFakeNet, UrlUpper, UrlUnknown}
Inputs ==
  {TextEmpty, TextBlank} \cup Texts \cup Urls

(***************************************************************************)
(* Library functions the code calls.                                       *)
(***************************************************************************)
SchemeHttp ==
  <<"h","t","t","p",":","/","/">>
SchemeHttps ==
  <<"h","t","t","p","s",":","/","/">>
\* urllib.parse.urlsplit: the number of characters of "scheme:", 0 without a scheme
SchemeLen(s) ==
  IF Find(s, ":") > 1 THEN Find(s, ":") ELSE 0
\* urllib.parse._splitnetloc: where the netloc that starts at index `start` ends,
\* before the first of "/", "?", "#"
NetlocEnd(s, start) ==
  IF \E i \in start..Len(s) : s[i] \in {"/", "?", "#"}
  THEN (CHOOSE i \in start..Len(s) :
          /\ s[i] \in {"/", "?", "#"}
          /\ \A j \in start..(i - 1) : s[j] \notin {"/", "?", "#"}) - 1
  ELSE Len(s)
\* urlparse(s).netloc, when urlparse returns: what follows "//" after the scheme
UrlNetloc(s) ==
  IF /\ Len(s) >= SchemeLen(s) + 2
     /\ s[SchemeLen(s) + 1] = "/"
     /\ s[SchemeLen(s) + 2] = "/"
  THEN SubSeq(s, SchemeLen(s) + 3, NetlocEnd(s, SchemeLen(s) + 3))
  ELSE <<>>
\* urlparse(s) raises ValueError("Invalid IPv6 URL"): unbalanced brackets in the netloc
UrlParseRaises(s) ==
  LET n == UrlNetloc(s)
  IN  (Find(n, "[") > 0) # (Find(n, "]") > 0)
\* validators.url(s): an http(s) URL with a host and no whitespace
ValidatorsUrl(s) ==
  /\ StartsWith(s, SchemeHttp) \/ StartsWith(s, SchemeHttps)
  /\ \A i \in 1..Len(s) : s[i] \notin Whitespace
  /\ ~UrlParseRaises(s)
  /\ Find(UrlNetloc(s), ".") > 1
\* re.search(pattern, text, re.IGNORECASE) for a pattern of literal characters
ReSearchIgnoreCase(pattern, text) ==
  Contains(Lower(pattern), Lower(text))

(***************************************************************************)
(* NewsContentExtractor.extract_from_url and what the network can do to it. *)
(***************************************************************************)
TitleSenado ==
  <<"R","e","f","o","r","m","a"," ","a","p","r","o","v","a","d","a"," ","n","o"," ","S","e","n",
    "a","d","o">>
TitleUrgente ==
  <<"U","r","g","e","n","t","e",":"," ","m","i","n","i","s","t","r","o"," ","f","a","l","a">>
AuthorAna ==
  <<"A","n","a"," ","S","o","u","z","a">>
DateMay ==
  <<"2","0","2","4","-","0","5","-","0","1"," ","1","0",":","0","0",":","0","0">>
SemTitulo ==
  <<"S","e","m"," ","t","i'","t","u","l","o">>
TituloNaoEncontrado ==
  <<"T","i'","t","u","l","o"," ","n","a~","o"," ","e","n","c","o","n","t","r","a","d","o">>
ConteudoNaoEncontrado ==
  <<"C","o","n","t","e","u'","d","o"," ","n","a~","o"," ","e","n","c","o","n","t","r","a","d",
    "o">>
ErroNaExtracao ==
  <<"E","r","r","o"," ","n","a"," ","e","x","t","r","a","c_","a~","o">>
NaoFoiPossivel ==
  <<"N","a~","o"," ","f","o","i"," ","p","o","s","s","i'","v","e","l"," ","e","x","t","r","a",
    "i","r"," ","o"," ","c","o","n","t","e","u'","d","o">>
MethodNewspaper ==
  <<"n","e","w","s","p","a","p","e","r","3","k">>
MethodSoup ==
  <<"b","e","a","u","t","i","f","u","l","s","o","u","p">>
MethodFailed ==
  <<"f","a","i","l","e","d">>
MethodUnknown ==
  <<"u","n","k","n","o","w","n">>
PortalPadded ==
  <<" "," ","P","o","r","t","a","l"," "," ">>
ShortBody ==
  <<"L","e","i","a"," ","m","a","i","s">>
Para1 ==
  <<"P","r","i","m","e","i","r","o"," ","p","a","r","a","g","r","a","f","o",".">>
Para2 ==
  <<"S","e","g","u","n","d","o",".">>
\* newspaper3k's Article after download() and parse(), as the network delivers it
ArticleSenado ==
  [title |-> TitleSenado, text |-> TextLong, authors |-> <<AuthorAna>>,
   publish_date |-> Some(DateMay)]
ArticleNoTitle ==
  [title |-> <<>>, text |-> <<"E","x","c","l","u","s","i","v","o",":"," ">> \o TextNormal,
   authors |-> <<>>, publish_date |-> Some(DateMay)]
ArticleUrgente ==
  [title |-> TitleUrgente, text |-> TextLong, authors |-> <<AuthorAna>>,
   publish_date |-> None]
\* a body of 100 characters or fewer
ArticleStub ==
  [title |-> TitleSenado, text |-> ShortBody, authors |-> <<>>, publish_date |-> None]
\* download() or parse() raises, or an article is parsed
Primaries ==
  {[kind |-> "raise"]} \cup
  {[kind |-> "article", article |-> a] :
     a \in {ArticleSenado, ArticleNoTitle, ArticleUrgente, ArticleStub}}

\* The page as BeautifulSoup sees it: the element (None or its text) that each
\* title selector and each content selector finds, and the <p> tags.
title_selectors ==
  <<"h1", "title", ".title", ".headline", "[class*=title]">>
content_selectors ==
  <<"article", ".content", ".post-content", ".entry-content", "[class*=content]",
    "[class*=article]", "main", ".main">>
SoupArticle ==
  [title_elems |-> <<None, Some(PortalPadded), None, None, None>>,
   content_elems |-> <<Some(TextLong), None, None, None, None, None, None, None>>,
   paragraphs |-> <<Para1>>]
SoupParagraphs ==
  [title_elems |-> <<None, None, None, None, None>>,
   content_elems |-> <<None, Some(ShortBody), None, None, None, None, Some(<<>>), None>>,
   paragraphs |-> <<Para1, Para2>>]
SoupEmpty ==
  [title_elems |-> <<None, None, None, None, None>>,
   content_elems |-> <<None, None, None, None, None, None, None, None>>,
   paragraphs |-> <<>>]
\* session.get or raise_for_status raises, or the page is parsed
Fallbacks ==
  {[kind |-> "raise"]} \cup
  {[kind |-> "soup", soup |-> s] : s \in {SoupArticle, SoupParagraphs, SoupEmpty}}

\* faulty variant: the test on the length of the body is left out
PrimaryReturnsAnyBody(p) ==
  /\ p.kind = "article"
  /\ p.article.text # <<>>
\* `if article.text and len(article.text) > 100` after a primary that did not raise
PrimaryReturns(p) ==
  /\ p.kind = "article"
  /\ p.article.text # <<>>
  /\ Len(p.article.text) > 100
Newspaper3kRecord(url, a) ==
  [title |-> IF a.title # <<>> THEN a.title ELSE SemTitulo,
   content |-> Take(a.text, 2000),
   authors |-> a.authors,
   publish_date |-> a.publish_date,
   source_url |-> url,
   method |-> MethodNewspaper]
\* the title loop: the first selector whose element has non-blank text
RECURSIVE TitleLoop(_, _)
TitleLoop(elems, i) ==
  IF i > Len(elems) THEN <<>>
  ELSE IF elems[i] # None /\ Strip(elems[i][1]) # <<>> THEN Strip(elems[i][1])
  ELSE TitleLoop(elems, i + 1)
\* the content loop: every element found overwrites content; it stops at one
\* longer than 100 characters
RECURSIVE ContentLoop(_, _, _)
ContentLoop(elems, i, content) ==
  IF i > Len(elems) THEN content
  ELSE IF elems[i] = None THEN ContentLoop(elems, i + 1, content)
  ELSE LET c == Strip(elems[i][1])
       IN  IF Len(c) > 100 THEN c ELSE ContentLoop(elems, i + 1, c)
BeautifulSoupRecord(url, soup) ==
  LET title == TitleLoop(soup.title_elems, 1)
      found == ContentLoop(soup.content_elems, 1, <<>>)
      first10 == Take(soup.paragraphs, 10)
      content == IF found # <<>> THEN found
                 ELSE Join(<<" ">>, [i \in 1..Len(first10) |-> Strip(first10[i])])
  IN  [title |-> IF title # <<>> THEN title ELSE TituloNaoEncontrado,
       content |-> IF content # <<>> THEN Take(content, 2000) ELSE ConteudoNaoEncontrado,
       authors |-> <<>>,
       publish_date |-> None,
       source_url |-> url,
       method |-> MethodSoup]
FailedRecord(url) ==
  [title |-> ErroNaExtracao,
   content |-> NaoFoiPossivel,
   authors |-> <<>>,
   publish_date |-> None,
   source_url |-> url,
   method |-> MethodFailed]
\* extract_from_url(url) when the primary method behaves as p and the fallback,
\* if it is reached, as f
extract_from_url(url, p, f) ==
  IF PrimaryReturns(p) THEN Newspaper3kRecord(url, p.article)
  ELSE IF f.kind = "soup" THEN BeautifulSoupRecord(url, f.soup)
  ELSE FailedRecord(url)

(***************************************************************************)
(* GoogleSearchScraper.search_google and what the network can do to it.    *)
(***************************************************************************)
HitTitle ==
  <<"N","o","t","i","c","i","a">>
HrefReliable ==
  <<"h","t","t","p","s",":","/","/","w","w","w",".","B","B","C",".","c","o","m","/","r">>
HrefUnknown ==
  <<"h","t","t","p",":","/","/","b","l","o","g",".","e","x","a","m","p","l","e",".","o","r","g",
    "/","r">>
\* urlparse raises on this one
HrefMalformed ==
  <<"h","t","t","p",":","/","/","[","b","b","c",".","c","o","m","/","r">>
\* a relative link: not a result
HrefRelative ==
  <<"/","s","e","a","r","c","h","?","q","=","x">>
\* one <div class="g"> of the result page: its <h3> text, its first <a href>, its snippet
Container(href) ==
  [title |-> HitTitle, url |-> href, snippet |-> <<>>]
Hits ==
  {Container(HrefReliable), Container(HrefUnknown), Container(HrefMalformed),
   Container(HrefRelative)}
\* the number of sources shown to the user
DisplayLimit ==
  5
\* the num_results the engine asks for
SearchLimit ==
  8
\* result pages: every page of up to MaxHits containers, and the longer pages made
\* of DisplayLimit containers of one kind followed by up to MaxTail of another
ShortPages ==
  UNION {[1..n -> Hits] : n \in 0..MaxHits}
LongPages ==
  {[i \in 1..(DisplayLimit + t) |-> IF i <= DisplayLimit THEN a ELSE b] :
     a \in Hits, b \in Hits, t \in 0..MaxTail}
Pages ==
  ShortPages \cup LongPages
\* What the search step can do: the request fails inside search_google
\* ("netfail"), a result page is parsed ("page"), or an exception leaves the
\* call ("raise": one that search_google's own handler does not absorb).
SearchEnvs ==
  {[kind |-> "raise", containers |-> <<>>], [kind |-> "netfail", containers |-> <<>>]} \cup
  {[kind |-> "page", containers |-> p] : p \in Pages}
\* the filter of line 179
IsResult(c) ==
  /\ c.title # <<>>
  /\ c.url # <<>>
  /\ StartsWith(c.url, <<"h","t","t","p">>)
\* search_google(query, num_results) when it returns
search_google(env, num_results) ==
  IF env.kind = "netfail" THEN <<>>
  ELSE SelectSeq(Take(env.containers, num_results), IsResult)

(***************************************************************************)
(* NewsCredibilityAnalyzer.analyze_news_credibility: the scoring rules.    *)
(***************************************************************************)
FactorReliableSource ==
  <<"[ok]"," ","F","o","n","t","e"," ","c","o","n","h","e","c","i","d","a"," ","e"," ","c","o",
    "n","f","i","a'","v","e","l">>
FactorUnknownSource ==
  <<"[!]"," ","F","o","n","t","e"," ","d","e","s","c","o","n","h","e","c","i","d","a"," ","o",
    "u"," ","n","a~","o"," ","v","e","r","i","f","i","c","a","d","a">>
FactorSensationalPrefix ==
  <<"[!]"," ","L","i","n","g","u","a","g","e","m"," ","s","e","n","s","a","c","i","o","n","a",
    "l","i","s","t","a"," ","d","e","t","e","c","t","a","d","a",":"," ">>
FactorNoResults ==
  <<"[x]"," ","N","e","n","h","u","m","a"," ","f","o","n","t","e"," ","a","d","i","c","i","o",
    "n","a","l"," ","e","n","c","o","n","t","r","a","d","a">>
FactorConfirmedSuffix ==
  <<" ","f","o","n","t","e","s"," ","c","o","n","f","i","a'","v","e","i","s"," ","c","o","n",
    "f","i","r","m","a","m"," ","i","n","f","o","r","m","a","c_","o~","e","s"," ","s","i","m",
    "i","l","a","r","e","s">>
FactorOneSource ==
  <<"[!]"," ","A","p","e","n","a","s"," ","1"," ","f","o","n","t","e"," ","c","o","n","f","i",
    "a'","v","e","l"," ","e","n","c","o","n","t","r","a","d","a">>
FactorUnconfirmed ==
  <<"[x]"," ","N","e","n","h","u","m","a"," ","f","o","n","t","e"," ","c","o","n","f","i","a'",
    "v","e","l"," ","c","o","n","f","i","r","m","a"," ","a","s"," ","i","n","f","o","r","m","a",
    "c_","o~","e","s">>
FactorSearchError ==
  <<"[x]"," ","E","r","r","o"," ","n","a"," ","v","e","r","i","f","i","c","a","c_","a~","o"," ",
    "d","e"," ","f","o","n","t","e","s"," ","e","x","t","e","r","n","a","s">>
FactorShort ==
  <<"[!]"," ","C","o","n","t","e","u'","d","o"," ","m","u","i","t","o"," ","c","u","r","t","o",
    " ","p","a","r","a"," ","v","e","r","i","f","i","c","a","c_","a~","o"," ","c","o","m","p",
    "l","e","t","a">>
FactorAuthor ==
  <<"[ok]"," ","A","u","t","o","r","i","a"," ","i","d","e","n","t","i","f","i","c","a","d","a">>
FactorNoAuthor ==
  <<"[!]"," ","A","u","t","o","r","i","a"," ","n","a~","o"," ","i","d","e","n","t","i","f","i",
    "c","a","d","a">>
FactorDate ==
  <<"[ok]"," ","D","a","t","a"," ","d","e"," ","p","u","b","l","i","c","a","c_","a~","o"," ",
    "i","d","e","n","t","i","f","i","c","a","d","a">>
FactorNoDate ==
  <<"[!]"," ","D","a","t","a"," ","d","e"," ","p","u","b","l","i","c","a","c_","a~","o"," ","n",
    "a~","o"," ","i","d","e","n","t","i","f","i","c","a","d","a">>
TextoDireto ==
  <<"T","e","x","t","o"," ","d","i","r","e","t","o">>
Ellipsis ==
  <<".",".",".">>

DeltaReliableSource ==
  -20
DeltaUnknownSource ==
  15
DeltaPerMarker ==
  10
DeltaNoResults ==
  25
DeltaConfirmed ==
  -15
DeltaOneSource ==
  10
DeltaUnconfirmed ==
  30
DeltaSearchError ==
  20
DeltaShort ==
  10
DeltaAuthor ==
  -5
DeltaNoAuthor ==
  10
DeltaDate ==
  -5
DeltaNoDate ==
  5
BaseAdjustment ==
  30

\* a dict: a function from its keys
EmptyDict ==
  <<>>
\* d.update(e)
Update(d, e) ==
  e @@ d
\* d.get(k, default)
Get(d, k, default) ==
  IF k \in DOMAIN d THEN d[k] ELSE default

\* faulty variant: exact match instead of containment
is_reliable_exact(domain) ==
  \E k \in 1..Len(reliable_sources) : reliable_sources[k] = domain
\* any(reliable in domain for reliable in self.reliable_sources)
is_reliable(domain) ==
  \E k \in 1..Len(reliable_sources) : Contains(reliable_sources[k], domain)
\* the patterns that re.search finds in full_text, in the order of the table
FindSuspicious(full_text) ==
  SelectSeq(suspicious_patterns, LAMBDA p : ReSearchIgnoreCase(p, full_text))

\* the initial values of the four accumulators, whatever an earlier call left
FreshScore(left) ==
  0
\* faulty variant: the list of the previous call is reused
StaleFactors(left) ==
  left
FreshFactors(left) ==
  <<>>
FreshSources(left) ==
  <<>>
FreshDetails(left) ==
  EmptyDict

\* The loop over the results: the count of reliable domains, unless urlparse
\* raises on the way.
RECURSIVE CountReliable(_, _, _)
CountReliable(results, i, n) ==
  IF i > Len(results) THEN [raised |-> FALSE, n |-> n]
  ELSE IF UrlParseRaises(results[i].url) THEN [raised |-> TRUE, n |-> n]
  ELSE CountReliable(results, i + 1,
         IF is_reliable(Lower(UrlNetloc(results[i].url))) THEN n + 1 ELSE n)
\* the branch on reliable_confirmations
ConfirmationRule(n) ==
  IF n >= 2
  THEN [factor |-> <<"[ok]", " ">> \o Str(n) \o FactorConfirmedSuffix, delta |-> DeltaConfirmed]
  ELSE IF n = 1 THEN [factor |-> FactorOneSource, delta |-> DeltaOneSource]
  ELSE [factor |-> FactorUnconfirmed, delta |-> DeltaUnconfirmed]
\* The body of the try statement: what it has assigned when it ends, and
\* whether it ended by an exception.
SearchTry(env) ==
  IF env.kind = "raise"
  THEN [raised |-> TRUE, assigned |-> FALSE, results |-> <<>>, sources |-> <<>>,
        factors |-> <<>>, delta |-> 0, details |-> EmptyDict]
  ELSE
    LET results == search_google(env, SearchLimit)
        sources == [i \in 1..Len(results) |-> results[i].url]
        count == CountReliable(results, 1, 0)
        rule == ConfirmationRule(count.n)
    IN  IF results = <<>>
        THEN [raised |-> FALSE, assigned |-> TRUE, results |-> results, sources |-> sources,
              factors |-> <<FactorNoResults>>, delta |-> DeltaNoResults,
              details |-> EmptyDict]
        ELSE IF count.raised
        THEN [raised |-> TRUE, assigned |-> TRUE, results |-> results, sources |-> sources,
              factors |-> <<>>, delta |-> 0, details |-> EmptyDict]
        ELSE [raised |-> FALSE, assigned |-> TRUE, results |-> results, sources |-> sources,
              factors |-> <<rule.factor>>, delta |-> rule.delta,
              details |-> [reliable_confirmations |-> count.n,
                           total_results |-> Len(results)]]
\* faulty variant: the handler zero-fills the corroboration metadata
SearchExceptZeroFill(t) ==
  [t EXCEPT !.raised = FALSE, !.factors = <<FactorSearchError>>, !.delta = DeltaSearchError,
            !.details = [reliable_confirmations |-> 0, total_results |-> 0]]
\* `except Exception`: the error factor and its delta
SearchExcept(t) ==
  [t EXCEPT !.raised = FALSE, !.factors = <<FactorSearchError>>, !.delta = DeltaSearchError]
\* faulty variant: no except clause, the exception leaves the engine
SearchStatementUncaught(env) ==
  SearchTry(env)
\* the whole try/except statement
SearchStatement(env) ==
  LET t == SearchTry(env) IN IF t.raised THEN SearchExcept(t) ELSE t

\* Content length, authorship and publish date.
LengthRule(content) ==
  IF Len(content.content) < 200
  THEN [factors |-> <<FactorShort>>, delta |-> DeltaShort]
  ELSE [factors |-> <<>>, delta |-> 0]
\* original_content.get('authors') is truthy
HasAuthors(content) ==
  Get(content, "authors", <<>>) # <<>>
\* faulty variant: the authorship test inverted
AuthorRuleInverted(content) ==
  IF ~HasAuthors(content)
  THEN [factors |-> <<FactorAuthor>>, delta |-> DeltaAuthor]
  ELSE [factors |-> <<FactorNoAuthor>>, delta |-> DeltaNoAuthor]
AuthorRule(content) ==
  IF HasAuthors(content)
  THEN [factors |-> <<FactorAuthor>>, delta |-> DeltaAuthor]
  ELSE [factors |-> <<FactorNoAuthor>>, delta |-> DeltaNoAuthor]
\* original_content.get('publish_date') is truthy
HasDate(content) ==
  /\ Get(content, "publish_date", None) # None
  /\ Get(content, "publish_date", None)[1] # <<>>
\* faulty variant: the date test inverted
DateRuleInverted(content) ==
  IF ~HasDate(content)
  THEN [factors |-> <<FactorDate>>, delta |-> DeltaDate]
  ELSE [factors |-> <<FactorNoDate>>, delta |-> DeltaNoDate]
DateRule(content) ==
  IF HasDate(content)
  THEN [factors |-> <<FactorDate>>, delta |-> DeltaDate]
  ELSE [factors |-> <<FactorNoDate>>, delta |-> DeltaNoDate]
\* faulty variant: the base adjustment without the clamp
NormalizeUnclamped(score) ==
  score + BaseAdjustment
\* faulty variant: the date factor is appended before the authorship factor
ContentFactorsSwapped(length, author, date) ==
  length.factors \o date.factors \o author.factors
\* the factors of lines 292-311, in the order they are appended
ContentFactors(length, author, date) ==
  length.factors \o author.factors \o date.factors
\* max(0, min(100, suspicion_score + 30))
Normalize(score) ==
  Max(0, Min(100, score + BaseAdjustment))
\* faulty variant: every source is returned
DisplayedAll(sources) ==
  sources
\* sources_checked[:5]
Displayed(sources) ==
  Take(sources, DisplayLimit)

(***************************************************************************)
(* The request handler analyze_news and the steps of the engine.           *)
(***************************************************************************)
\* raise HTTPException(status_code=400, ...): an instance of Exception
EmptyInputDetail ==
  <<"U","R","L"," ","o","u"," ","t","e","x","t","o"," ","n","a~","o"," ","p","o","d","e"," ",
    "e","s","t","a","r"," ","v","a","z","i","o">>
HTTPException400 ==
  [type |-> "HTTPException", status_code |-> 400, detail |-> EmptyInputDetail]
\* the handler's `except Exception as e: raise HTTPException(status_code=500, ...)`
HandlerExcept(e) ==
  [status |-> 500, body |-> <<>>, cause |-> Some(e)]
\* return NewsAnalysisResponse(**result)
OkResponse(r) ==
  [status |-> 200, body |-> r, cause |-> None]

\* the inputs and the outcome of the analysis that has just been answered
RunKey ==
  [input |-> url_or_text, content |-> original_content,
   search_failed |-> search_env[1].kind = "raise", results |-> search_results]
LastRun ==
  IF pc = "done" /\ response[1].status = 200
  THEN Some([key |-> RunKey, outcome |-> response[1].body])
  ELSE prev

Init ==
  /\ pc = "idle"
  /\ url_or_text = <<>>
  /\ is_url = FALSE
  /\ extract_env = None
  /\ original_content = <<>>
  /\ content_summary = <<>>
  /\ search_query = <<>>
  /\ suspicious_found = <<>>
  /\ search_env = None
  /\ search_results = <<>>
  /\ search_calls = <<>>
  /\ suspicion_score = 0
  /\ factors = <<>>
  /\ sources_checked = <<>>
  /\ analysis_details = <<>>
  /\ result = <<>>
  /\ db_insert = "none"
  /\ db_record = <<>>
  /\ response = None
  /\ prev = None

\* A request arrives. With keep, what the previous call left in memory stays
\* there and prev remembers the analysis just answered or keeps an earlier one;
\* without, the model forgets the finished request.
Receive(inputs, keep) ==
  /\ pc \in {"idle", "done"}
  /\ \E i \in inputs : url_or_text' = i
  /\ pc' = "handler"
  /\ response' = None
  /\ result' = <<>>
  /\ db_insert' = "none"
  /\ db_record' = <<>>
  /\ search_calls' = <<>>
  /\ extract_env' = None
  /\ search_env' = None
  /\ IF keep
     THEN /\ prev' \in {prev, LastRun}
          /\ UNCHANGED <<is_url, original_content, content_summary, search_query,
                         suspicious_found, search_results, suspicion_score, factors,
                         sources_checked, analysis_details>>
     ELSE /\ prev' = None
          /\ is_url' = FALSE
          /\ original_content' = <<>>
          /\ content_summary' = <<>>
          /\ search_query' = <<>>
          /\ suspicious_found' = <<>>
          /\ search_results' = <<>>
          /\ suspicion_score' = 0
          /\ factors' = <<>>
          /\ sources_checked' = <<>>
          /\ analysis_details' = <<>>

\* analyze_news, lines 340-345: the empty-input check, inside the handler's try
Validate ==
  /\ pc = "handler"
  /\ IF Strip(url_or_text) = <<>>
     THEN /\ response' = Some(HandlerExcept(HTTPException400))
          /\ pc' = "done"
     ELSE /\ pc' = "analyze"
          /\ UNCHANGED response
  /\ UNCHANGED <<url_or_text, is_url, extract_env, original_content, content_summary,
                 search_query, suspicious_found, search_env, search_results, search_calls,
                 suspicion_score, factors, sources_checked, analysis_details, result,
                 db_insert, db_record, prev>>

\* analyze_news_credibility, lines 214-220
Classify ==
  /\ pc = "analyze"
  /\ suspicion_score' = FreshScore(suspicion_score)
  /\ factors' = FreshFactors(factors)
  /\ sources_checked' = FreshSources(sources_checked)
  /\ analysis_details' = FreshDetails(analysis_details)
  /\ is_url' = ValidatorsUrl(url_or_text)
  /\ pc' = IF ValidatorsUrl(url_or_text) THEN "extract" ELSE "direct"
  /\ UNCHANGED <<url_or_text, extract_env, original_content, content_summary,
                 search_query, suspicious_found, search_env, search_results, search_calls,
                 result, db_insert, db_record, response, prev>>

\* line 224: the call of extract_from_url; the fallback is reached only when
\* the primary method does not return
NotReached ==
  [kind |-> "unreached"]
ExtractFromUrl(primaries, fallbacks) ==
  /\ pc = "extract"
  /\ \E p \in primaries, f \in fallbacks \cup {NotReached} :
       /\ (f = NotReached) <=> PrimaryReturns(p)
       /\ extract_env' = Some([primary |-> p, fallback |-> f])
       /\ original_content' = extract_from_url(url_or_text, p, f)
  /\ pc' = "source"
  /\ UNCHANGED <<url_or_text, is_url, content_summary, search_query, suspicious_found,
                 search_env, search_results, search_calls, suspicion_score, factors,
                 sources_checked, analysis_details, result, db_insert, db_record,
                 response, prev>>

\* the source rule's outcome for a domain
SourceRuleOf(domain) ==
  IF is_reliable(domain)
  THEN [factor |-> FactorReliableSource, delta |-> DeltaReliableSource]
  ELSE [factor |-> FactorUnknownSource, delta |-> DeltaUnknownSource]
\* lines 225-237: summary, source rule, query
SourceRule ==
  /\ pc = "source"
  /\ content_summary' =
       original_content.title \o <<":", " ">> \o Take(original_content.content, 200)
         \o Ellipsis
  /\ \E domain \in {Lower(UrlNetloc(url_or_text))} :
       \E rule \in {SourceRuleOf(domain)} :
         /\ factors' = Append(factors, rule.factor)
         /\ suspicion_score' = suspicion_score + rule.delta
         /\ analysis_details' = Update(analysis_details, [original_domain |-> domain])
  /\ search_query' = original_content.title
  /\ pc' = "patterns"
  /\ UNCHANGED <<url_or_text, is_url, extract_env, original_content, suspicious_found,
                 search_env, search_results, search_calls, sources_checked, result,
                 db_insert, db_record, response, prev>>

\* faulty variant: the whole text is the query
DirectTextWholeQuery ==
  /\ pc = "direct"
  /\ original_content' = [title |-> TextoDireto, content |-> url_or_text]
  /\ content_summary' = Take(url_or_text, 200) \o Ellipsis
  /\ search_query' = url_or_text
  /\ pc' = "patterns"
  /\ UNCHANGED <<url_or_text, is_url, extract_env, suspicious_found, search_env,
                 search_results, search_calls, suspicion_score, factors, sources_checked,
                 analysis_details, result, db_insert, db_record, response, prev>>
\* lines 241-243: raw text
DirectText ==
  /\ pc = "direct"
  /\ original_content' = [title |-> TextoDireto, content |-> url_or_text]
  /\ content_summary' = Take(url_or_text, 200) \o Ellipsis
  /\ search_query' = Take(url_or_text, 100)
  /\ pc' = "patterns"
  /\ UNCHANGED <<url_or_text, is_url, extract_env, suspicious_found, search_env,
                 search_results, search_calls, suspicion_score, factors, sources_checked,
                 analysis_details, result, db_insert, db_record, response, prev>>

\* the sensationalism factor: the prefix and ', '.join(suspicious_found)
SensationalFactor(found) ==
  FactorSensationalPrefix \o Join(<<",", " ">>, found)
\* lines 246-254: the sensational patterns
Patterns ==
  /\ pc = "patterns"
  /\ LET full_text == original_content.title \o <<" ">> \o original_content.content
         found == FindSuspicious(full_text)
     IN  /\ suspicious_found' = found
         /\ IF found # <<>>
            THEN /\ factors' = Append(factors, SensationalFactor(found))
                 /\ suspicion_score' = suspicion_score + Len(found) * DeltaPerMarker
            ELSE UNCHANGED <<factors, suspicion_score>>
  /\ pc' = "search"
  /\ UNCHANGED <<url_or_text, is_url, extract_env, original_content, content_summary,
                 search_query, search_env, search_results, search_calls, sources_checked,
                 analysis_details, result, db_insert, db_record, response, prev>>

\* lines 257-289: the search and the corroboration rule. An exception that the
\* statement does not catch leaves the engine and reaches the handler's except.
Search(envs) ==
  /\ pc = "search"
  /\ \E env \in envs :
       LET s == SearchStatement(env)
       IN  /\ search_env' = Some(env)
           /\ search_calls' =
                Append(search_calls, [query |-> search_query, num_results |-> SearchLimit])
           /\ search_results' = s.results
           /\ sources_checked' = IF s.assigned THEN s.sources ELSE sources_checked
           /\ IF s.raised
              THEN /\ response' = Some(HandlerExcept([type |-> "Exception"]))
                   /\ pc' = "done"
                   /\ UNCHANGED <<factors, suspicion_score, analysis_details>>
              ELSE /\ factors' = factors \o s.factors
                   /\ suspicion_score' = suspicion_score + s.delta
                   /\ analysis_details' = Update(analysis_details, s.details)
                   /\ pc' = "content"
                   /\ UNCHANGED response
  /\ UNCHANGED <<url_or_text, is_url, extract_env, original_content, content_summary,
                 search_query, suspicious_found, result, db_insert, db_record, prev>>

\* lines 292-328: length, authorship and date rules, normalisation, the returned dict
Score ==
  /\ pc = "content"
  /\ LET length == LengthRule(original_content)
         author == AuthorRule(original_content)
         date == DateRule(original_content)
         score == Normalize(suspicion_score + length.delta + author.delta + date.delta)
         facs == factors \o ContentFactors(length, author, date)
         details == Update(analysis_details,
                      [content_length |-> Len(original_content.content),
                       suspicious_patterns_found |-> Len(suspicious_found),
                       extraction_method |-> Get(original_content, "method", MethodUnknown)])
     IN  /\ suspicion_score' = score
         /\ factors' = facs
         /\ analysis_details' = details
         /\ result' = [suspicion_score |-> score,
                       factors |-> facs,
                       sources_checked |-> Displayed(sources_checked),
                       content_summary |-> content_summary,
                       analysis_details |-> details]
  /\ pc' = "store"
  /\ UNCHANGED <<url_or_text, is_url, extract_env, original_content, content_summary,
                 search_query, suspicious_found, search_env, search_results, search_calls,
                 sources_checked, db_insert, db_record, response, prev>>

\* faulty variant: a failed insert reaches the handler's except
StoreUncaught ==
  /\ pc = "store"
  /\ db_record' = [input |-> url_or_text, result |-> result]
  /\ \E ok \in BOOLEAN :
       IF ok
       THEN db_insert' = "ok" /\ pc' = "respond" /\ UNCHANGED response
       ELSE /\ db_insert' = "failed"
            /\ pc' = "done"
            /\ response' = Some(HandlerExcept([type |-> "Exception"]))
  /\ UNCHANGED <<url_or_text, is_url, extract_env, original_content, content_summary,
                 search_query, suspicious_found, search_env, search_results, search_calls,
                 suspicion_score, factors, sources_checked, analysis_details, result,
                 prev>>
\* lines 348-356: the insert, which succeeds or raises (and is then only logged)
Store ==
  /\ pc = "store"
  /\ db_record' = [input |-> url_or_text, result |-> result]
  /\ \E ok \in BOOLEAN : db_insert' = IF ok THEN "ok" ELSE "failed"
  /\ pc' = "respond"
  /\ UNCHANGED <<url_or_text, is_url, extract_env, original_content, content_summary,
                 search_query, suspicious_found, search_env, search_results, search_calls,
                 suspicion_score, factors, sources_checked, analysis_details, result,
                 response, prev>>

\* line 358
Respond ==
  /\ pc = "respond"
  /\ response' = Some(OkResponse(result))
  /\ pc' = "done"
  /\ UNCHANGED <<url_or_text, is_url, extract_env, original_content, content_summary,
                 search_query, suspicious_found, search_env, search_results, search_calls,
                 suspicion_score, factors, sources_checked, analysis_details, result,
                 db_insert, db_record, prev>>

Next ==
  \/ Receive(Inputs, FALSE)
  \/ Validate
  \/ Classify
  \/ ExtractFromUrl(Primaries, Fallbacks)
  \/ SourceRule
  \/ DirectText
  \/ Patterns
  \/ Search(SearchEnvs)
  \/ Score
  \/ Store
  \/ Respond

Spec ==
  Init /\ [][Next]_vars

(***************************************************************************)
(* Properties.                                                             *)
(***************************************************************************)
\* the engine has returned its outcome (the dict of lines 322-328)
Returned ==
  pc \in {"store", "respond", "done"} /\ result # <<>>
\* the search step returned a list (it neither raised nor was skipped)
SearchReturned ==
  search_env # None /\ search_env[1].kind # "raise"
SearchRaised ==
  search_env # None /\ search_env[1].kind = "raise"
\* clamp(x, 0, 100)
Clamp100(x) ==
  IF x < 0 THEN 0 ELSE IF x > 100 THEN 100 ELSE x
\* a result whose URL names a reliable domain; a URL that does not parse names none
ReliableResult(r) ==
  ~UrlParseRaises(r.url) /\ is_reliable(Lower(UrlNetloc(r.url)))
ReliableConfirmations ==
  Cardinality({i \in 1..Len(search_results) : ReliableResult(search_results[i])})
\* the number of distinct sensational patterns in title + " " + body
MarkersMatched ==
  Cardinality({k \in 1..Len(suspicious_patterns) :
    ReSearchIgnoreCase(suspicious_patterns[k],
      original_content.title \o <<" ">> \o original_content.content)})

\* C1: the suspicion_score that analyze_news_credibility returns is an integer
\* between 0 and 100, whatever the input, the extractor and the search step did.
C1_ScoreInRange ==
  Returned => result.suspicion_score \in 0..100
\* C1 witness: nine markers on raw text, an accumulation far above 100, returned as 100
C1_Witness ==
  /\ Returned
  /\ ~is_url
  /\ Len(suspicious_found) = 9
  /\ result.suspicion_score = 100

\* The terms of the score as the specification states them.
TermSource ==
  IF ~is_url THEN 0
  ELSE IF is_reliable(Lower(UrlNetloc(url_or_text))) THEN -20 ELSE 15
TermCorroboration ==
  IF SearchRaised THEN 20
  ELSE IF Len(search_results) = 0 THEN 25
  ELSE IF ReliableConfirmations >= 2 THEN -15
  ELSE IF ReliableConfirmations = 1 THEN 10
  ELSE 30
TermLength ==
  IF Len(original_content.content) < 200 THEN 10 ELSE 0
TermAuthors ==
  IF HasAuthors(original_content) THEN -5 ELSE 10
TermDate ==
  IF HasDate(original_content) THEN -5 ELSE 5
\* C2: the returned score is clamp(30 + S + 10*N + C + L + A + D, 0, 100) with
\* the terms above. Stated as the claim states it; the code departs from it when
\* a result URL does not parse (the loop raises and the error branch adds 20).
C2_ScoreFormula ==
  Returned =>
    result.suspicion_score =
      Clamp100(30 + TermSource + 10 * MarkersMatched + TermCorroboration + TermLength
                 + TermAuthors + TermDate)

\* the case of C3: a reliable-domain URL, authors and date present, a body of
\* 200 characters or more, no marker, and a search that returns no result
C3_Case ==
  /\ Returned
  /\ is_url
  /\ is_reliable(Lower(UrlNetloc(url_or_text)))
  /\ HasAuthors(original_content)
  /\ HasDate(original_content)
  /\ Len(original_content.content) >= 200
  /\ suspicious_found = <<>>
  /\ SearchReturned
  /\ search_results = <<>>
\* C3 as stated: in that case the score is 0.
C3_Original ==
  C3_Case => result.suspicion_score = 0
\* C3 amended: in that case the score is 25 = clamp(-20 + 25 - 5 - 5 + 30): zero
\* results add 25; the -15 of the claim belongs to two or more confirmations.
C3_Amended ==
  C3_Case => result.suspicion_score = 25
C3_Witness ==
  C3_Case /\ pc = "done"

\* the request has been answered
Answered ==
  pc = "done" /\ response # None
\* C4: a request whose url_or_text is empty or only whitespace is answered with
\* HTTP 400, and neither the engine nor the insert runs for it. Stated as the
\* claim states it; the code answers 500, because the HTTPException(400) of
\* line 342 is raised inside the try whose `except Exception` re-raises as 500.
C4_BlankRejected400 ==
  (Answered /\ Strip(url_or_text) = <<>>) =>
    /\ response[1].status = 400
    /\ result = <<>>
    /\ search_calls = <<>>
    /\ db_insert = "none"

\* s.endswith(p)
EndsWith(s, p) ==
  Len(s) >= Len(p) /\ SubSeq(s, Len(s) - Len(p) + 1, Len(s)) = p
\* the factors of rule 3
IsCorroborationFactor(f) ==
  \/ f \in {FactorNoResults, FactorOneSource, FactorUnconfirmed, FactorSearchError}
  \/ EndsWith(f, FactorConfirmedSuffix)
\* how many factors of fs satisfy the test
CountOf(fs, Test(_)) ==
  Cardinality({i \in 1..Len(fs) : Test(fs[i])})
\* C5: when the search collaborator raises, the analysis still returns: the
\* error factor is the one corroboration factor, 20 is what rule 3 adds to the
\* score, analysis_details has neither 'reliable_confirmations' nor
\* 'total_results', and the length, authorship and date rules are still applied.
C5_SearchRaiseHandled ==
  (pc \in {"content", "store"} /\ SearchRaised) =>
    /\ pc = "content" =>
         /\ factors # <<>>
         /\ factors[Len(factors)] = FactorSearchError
         /\ suspicion_score = TermSource + 10 * Len(suspicious_found) + 20
    /\ pc = "store" =>
         /\ result # <<>>
         /\ CountOf(result.factors, IsCorroborationFactor) = 1
         /\ CountOf(result.factors, LAMBDA f : f = FactorSearchError) = 1
         /\ "reliable_confirmations" \notin DOMAIN result.analysis_details
         /\ "total_results" \notin DOMAIN result.analysis_details
         /\ CountOf(result.factors, LAMBDA f : f = FactorShort) = TermLength \div 10
         /\ CountOf(result.factors, LAMBDA f : f \in {FactorAuthor, FactorNoAuthor}) = 1
         /\ CountOf(result.factors, LAMBDA f : f \in {FactorDate, FactorNoDate}) = 1
         /\ result.suspicion_score =
              Clamp100(30 + TermSource + 10 * MarkersMatched + 20 + TermLength
                         + TermAuthors + TermDate)
\* C5 witness: the raw text of three markers with a failing search, 30 + 20 + 10 + 10 + 5 + 30
C5_Witness ==
  /\ Answered
  /\ SearchRaised
  /\ url_or_text = TextShort
  /\ response[1].status = 200
  /\ response[1].body.suspicion_score = 100

\* C6: in every returned outcome sources_checked is the URLs of the first
\* min(5, number of results) results, in the order the search returned them,
\* while the recorded count of reliable confirmations is taken over all results.
C6_SourcesChecked ==
  Returned =>
    /\ Len(result.sources_checked) = Min(5, Len(search_results))
    /\ \A i \in 1..Len(result.sources_checked) :
         result.sources_checked[i] = search_results[i].url
    /\ "reliable_confirmations" \in DOMAIN result.analysis_details =>
         result.analysis_details.reliable_confirmations = ReliableConfirmations
\* C6 witness: more than five results, the reliable ones all beyond the fifth
C6_Witness ==
  /\ Returned
  /\ Len(search_results) > 5
  /\ Len(result.sources_checked) = 5
  /\ \A i \in 1..5 : ~ReliableResult(search_results[i])
  /\ "reliable_confirmations" \in DOMAIN result.analysis_details
  /\ result.analysis_details.reliable_confirmations >= 2

\* Substring containment stated by position: entry e lies in d at some offset.
OccursIn(e, d) ==
  \E a \in 0..Len(d) : a + Len(e) <= Len(d) /\ SubSeq(d, a + 1, a + Len(e)) = e
\* some entry of the fixed list occurs in the lower-cased domain
ListedIn(domain) ==
  \E k \in 1..Len(reliable_sources) : OccursIn(reliable_sources[k], Lower(domain))
DomainG1 ==
  reliable_sources[1]
DomainWwwG1 ==
  <<"w","w","w",".">> \o reliable_sources[1]
DomainFakeNet ==
  reliable_sources[1] \o <<".","f","a","k","e",".","n","e","t">>
\* C7: a domain is classified reliable exactly when, lower-cased, it contains an
\* entry of reliable_sources; g1.globo.com, www.g1.globo.com and
\* g1.globo.com.fake.net are all reliable; the input URL's domain and every
\* search result's domain are put to the same test.
C7_ReliableIffSubstring ==
  /\ (pc = "patterns" /\ is_url) =>
       /\ (factors[1] = FactorReliableSource) <=> ListedIn(UrlNetloc(url_or_text))
       /\ (factors[1] = FactorUnknownSource) <=> ~ListedIn(UrlNetloc(url_or_text))
       /\ analysis_details.original_domain \in {DomainG1, DomainWwwG1, DomainFakeNet} =>
            factors[1] = FactorReliableSource
  /\ (pc = "content" /\ "reliable_confirmations" \in DOMAIN analysis_details) =>
       analysis_details.reliable_confirmations =
         Cardinality({i \in 1..Len(search_results) :
                        ListedIn(UrlNetloc(search_results[i].url))})
\* C7 witness: the look-alike domain as input, a result on an upper-case domain
C7_Witness ==
  /\ pc = "content"
  /\ is_url
  /\ analysis_details.original_domain = DomainFakeNet
  /\ factors[1] = FactorReliableSource
  /\ "reliable_confirmations" \in DOMAIN analysis_details
  /\ analysis_details.reliable_confirmations = 1
  /\ Len(search_results) = 2

(***************************************************************************)
(* Every request is answered: the handler's steps under weak fairness, on  *)
(* result pages of at most one container.                                  *)
(***************************************************************************)
LiveSearchEnvs ==
  {env \in SearchEnvs : Len(env.containers) <= 1}
\* the steps of the handler and the engine once a request is in
HandlerStep ==
  \/ Validate
  \/ Classify
  \/ ExtractFromUrl(Primaries, Fallbacks)
  \/ SourceRule
  \/ DirectText
  \/ Patterns
  \/ Search(LiveSearchEnvs)
  \/ Score
  \/ Store
  \/ Respond
NextLive ==
  \/ Receive(Inputs, FALSE)
  \/ HandlerStep
\* A request that is in is run to its answer: every call is synchronous or
\* awaited with a timeout, so the ready step of the handler is eventually taken.
LiveSpec ==
  Init /\ [][NextLive]_vars /\ WF_vars(HandlerStep)
\* C8 as stated: a request whose input is not empty ends in HTTP 200.
C8_Original ==
  (Answered /\ url_or_text # <<>>) => response[1].status = 200
\* C8 amended: a request whose input is not empty and not only whitespace is
\* eventually answered with HTTP 200 and a scored outcome, whatever the
\* extractor and the search step do, and is never answered otherwise.
C8_Amended ==
  /\ (pc = "handler" /\ Strip(url_or_text) # <<>>) ~>
       (Answered /\ response[1].status = 200
          /\ response[1].body.suspicion_score \in 0..100
          /\ response[1].body.factors # <<>>)
  /\ [](Answered /\ Strip(url_or_text) # <<>> => response[1].status = 200)
\* C8 witness: extraction failed and the search raised, and the answer is 200
C8_Witness ==
  /\ Answered
  /\ response[1].status = 200
  /\ is_url
  /\ original_content.method = MethodFailed
  /\ SearchRaised

(***************************************************************************)
(* Two analyses of one analyzer: what a call left behind stays in memory,  *)
(* and prev remembers an earlier analysis.                                 *)
(***************************************************************************)
TwiceInputs ==
  {TextBlank, TextShort, UrlG1}
TwicePrimaries ==
  {[kind |-> "raise"], [kind |-> "article", article |-> ArticleSenado]}
TwiceFallbacks ==
  {[kind |-> "raise"], [kind |-> "soup", soup |-> SoupArticle]}
TwiceSearchEnvs ==
  {[kind |-> "raise", containers |-> <<>>], [kind |-> "netfail", containers |-> <<>>],
   [kind |-> "page", containers |-> <<Container(HrefReliable), Container(HrefReliable)>>],
   [kind |-> "page", containers |-> <<Container(HrefReliable), Container(HrefMalformed)>>]}
NextTwice ==
  \/ Receive(TwiceInputs, TRUE)
  \/ Validate
  \/ Classify
  \/ ExtractFromUrl(TwicePrimaries, TwiceFallbacks)
  \/ SourceRule
  \/ DirectText
  \/ Patterns
  \/ Search(TwiceSearchEnvs)
  \/ Score
  \/ Store
  \/ Respond
TwoRuns ==
  Init /\ [][NextTwice]_vars
\* C9: an analysis whose input, content record and search results (or search
\* failure) equal those of an earlier analysis returns the same outcome.
C9_SameInputsSameOutcome ==
  (Answered /\ response[1].status = 200 /\ prev # None /\ prev[1].key = RunKey) =>
    response[1].body = prev[1].outcome
\* C9 witness: a URL analysed twice with the same content and results
C9_Witness ==
  /\ Answered
  /\ response[1].status = 200
  /\ prev # None
  /\ prev[1].key = RunKey
  /\ is_url
  /\ Len(search_results) = 2
  /\ Len(response[1].body.factors) >= 4

\* the rule a factor belongs to, 0 for none
FactorRule(f) ==
  IF f \in {FactorReliableSource, FactorUnknownSource} THEN 1
  ELSE IF StartsWith(f, FactorSensationalPrefix) THEN 2
  ELSE IF IsCorroborationFactor(f) THEN 3
  ELSE IF f = FactorShort THEN 4
  ELSE IF f \in {FactorAuthor, FactorNoAuthor} THEN 5
  ELSE IF f \in {FactorDate, FactorNoDate} THEN 6
  ELSE 0
HasRule(fs, n) ==
  \E i \in 1..Len(fs) : FactorRule(fs[i]) = n
\* C10: the factors are in rule order, each rule at most once: the source
\* factor exactly for URL input, the sensationalism factor exactly when a marker
\* matched, one corroboration factor, the short-content factor exactly when the
\* body is under 200 characters, one authorship and one date factor; raw text
\* gets no factor and no delta from the source rule.
C10_FactorOrder ==
  /\ pc = "store" =>
       LET fs == result.factors
       IN  /\ \A i \in 1..Len(fs) : FactorRule(fs[i]) # 0
           /\ \A i \in 1..Len(fs), j \in 1..Len(fs) :
                i < j => FactorRule(fs[i]) < FactorRule(fs[j])
           /\ HasRule(fs, 1) <=> is_url
           /\ HasRule(fs, 2) <=> MarkersMatched >= 1
           /\ HasRule(fs, 3)
           /\ HasRule(fs, 4) <=> Len(original_content.content) < 200
           /\ HasRule(fs, 5)
           /\ HasRule(fs, 6)
  /\ (pc = "patterns" /\ ~is_url) => (factors = <<>> /\ suspicion_score = 0)
\* C10 witness: a URL outcome with all six factors
C10_Witness ==
  /\ pc = "store"
  /\ is_url
  /\ Len(result.factors) = 6

(***************************************************************************)
(* The order of the steps of one analysis.                                 *)
(***************************************************************************)
\* extract_from_url has returned the content record of this request
Extracted ==
  /\ extract_env # None
  /\ original_content =
       extract_from_url(url_or_text, extract_env[1].primary, extract_env[1].fallback)
\* the query the engine derives: the extracted title, or the first 100 characters
DerivedQuery ==
  IF is_url THEN original_content.title ELSE Take(url_or_text, 100)
\* C11: in one analysis the extraction (URL input only) is complete before the
\* query is derived, the query (the extracted title, or the first 100
\* characters of raw text) is derived before the search is invoked, and the
\* search is invoked before the score is final; the search step is invoked
\* exactly once per analysis, asking for 8 results.
C11_StepOrder ==
  /\ [](/\ Len(search_calls) <= 1
        /\ (search_query # <<>>) =>
             /\ is_url => Extracted
             /\ search_query = DerivedQuery
        /\ (search_calls # <<>>) =>
             /\ search_query # <<>>
             /\ search_calls[1] = [query |-> search_query, num_results |-> 8]
        /\ (result # <<>>) => Len(search_calls) = 1)
  /\ [][(pc \notin {"idle", "done"}) =>
          /\ (search_query' # search_query) =>
               (search_calls = <<>> /\ result = <<>> /\ (is_url => Extracted))
          /\ (search_calls' # search_calls) =>
               (search_query' = search_query /\ search_query # <<>> /\ result = <<>>)
          /\ (result' # result) =>
               (Len(search_calls) = 1 /\ search_calls' = search_calls
                  /\ search_query' = search_query)]_vars
\* C11 witness: a URL analysis is answered after one search for the extracted
\* title with 8 results asked for
C11_Witness ==
  /\ Answered
  /\ response[1].status = 200
  /\ is_url
  /\ Extracted
  /\ search_calls = <<[query |-> TitleSenado, num_results |-> 8]>>

(***************************************************************************)
(* Results whose URL does not parse, and a search request that fails.      *)
(***************************************************************************)
\* the search step returned a list holding a URL that urlparse rejects
HasUnparsableResult ==
  /\ SearchReturned
  /\ \E i \in 1..Len(search_results) : UrlParseRaises(search_results[i].url)
\* the corroboration factor, the last one appended when the search statement ends
LastFactor ==
  factors[Len(factors)]
\* C12: when the results hold a URL that cannot be parsed into a domain, the
\* corroboration rule does not raise: that result counts as not reliable, the
\* others are still counted, and the branch taken is the one of the resulting
\* reliable count, not the search-error branch.
C12_UnparsableCountsUnreliable ==
  (pc = "content" /\ HasUnparsableResult) =>
    /\ LastFactor # FactorSearchError
    /\ LastFactor = ConfirmationRule(ReliableConfirmations).factor
    /\ Get(analysis_details, "reliable_confirmations", -1) = ReliableConfirmations
    /\ Get(analysis_details, "total_results", -1) = Len(search_results)
\* C13: when the search provider's network request fails or times out, the
\* outcome is the error branch of the corroboration rule: the factor
\* "Erro na verificacao de fontes externas" and +20, no other branch.
C13_NetworkFailureIsErrorBranch ==
  (pc = "content" /\ search_env # None /\ search_env[1].kind = "netfail") =>
    /\ LastFactor = FactorSearchError
    /\ suspicion_score = TermSource + DeltaPerMarker * Len(suspicious_found) + 20

(***************************************************************************)
(* The extractor never raises.                                             *)
(***************************************************************************)
\* the keys of a content record
ContentRecordKeys ==
  {"title", "content", "authors", "publish_date", "source_url", "method"}
\* C14: extract_from_url never raises to its caller, whatever the URL and
\* whatever fails in the primary or the fallback method: it always returns a
\* content record; the fallback is attempted whenever the primary raises or
\* yields a body of 100 characters or fewer; when the fallback raises too the
\* record has method 'failed', no authors, no publish date and the placeholder
\* title and body.
C14_ExtractNeverRaises ==
  (extract_env # None) =>
    LET p == extract_env[1].primary
        f == extract_env[1].fallback
        r == original_content
    IN  /\ pc \in {"source", "patterns", "search", "content", "store", "respond", "done"}
        /\ Answered => response[1].status = 200
        /\ DOMAIN r = ContentRecordKeys
        /\ r.method \in {MethodNewspaper, MethodSoup, MethodFailed}
        /\ r.source_url = url_or_text
        /\ r.title # <<>>
        /\ r.content # <<>>
        /\ (p.kind = "raise" \/ Len(p.article.text) <= 100) =>
             (f # NotReached /\ r.method # MethodNewspaper)
        /\ (f # NotReached /\ f.kind = "raise") =>
             r = [title |-> ErroNaExtracao, content |-> NaoFoiPossivel, authors |-> <<>>,
                  publish_date |-> None, source_url |-> url_or_text,
                  method |-> MethodFailed]
\* C14 witness: the primary yields a body of at most 100 characters, the
\* fallback raises, and the request is answered on the 'failed' record
C14_Witness ==
  /\ Answered
  /\ response[1].status = 200
  /\ extract_env # None
  /\ extract_env[1].primary.kind = "article"
  /\ Len(extract_env[1].primary.article.text) <= 100
  /\ extract_env[1].fallback = [kind |-> "raise"]
  /\ original_content.method = MethodFailed
  /\ response[1].body.analysis_details.extraction_method = MethodFailed

(***************************************************************************)
(* Raw text.                                                               *)
(***************************************************************************)
\* C15: for raw text, whatever the text and whatever the search step does,
\* the returned score is at least 30: the authorship-not-identified (+10) and
\* date-not-identified (+5) rules always fire for raw text and the largest
\* reduction available is -15.
C15_RawTextAtLeast30 ==
  (Returned /\ ~is_url) =>
    /\ result.suspicion_score >= 30
    /\ \E i \in 1..Len(result.factors) : result.factors[i] = FactorNoAuthor
    /\ \E i \in 1..Len(result.factors) : result.factors[i] = FactorNoDate
    /\ \A i \in 1..Len(result.factors) :
         result.factors[i] \notin
           {FactorAuthor, FactorDate, FactorReliableSource, FactorUnknownSource}
\* C15 witness: a raw text of 200 characters or more without markers, confirmed
\* by two reliable sources, is scored exactly 30
C15_Witness ==
  /\ Returned
  /\ ~is_url
  /\ Len(url_or_text) >= 200
  /\ ReliableConfirmations >= 2
  /\ result.suspicion_score = 30

(***************************************************************************)
(* Persistence.                                                            *)
(***************************************************************************)
\* the dict the engine returned, rebuilt from the engine's final locals
EngineOutcome ==
  [suspicion_score |-> suspicion_score,
   factors |-> factors,
   sources_checked |-> Take(sources_checked, 5),
   content_summary |-> content_summary,
   analysis_details |-> analysis_details]
\* C16: a failure of the persistence step (the insert raises) does not change
\* the response of /api/analyze: the request is still answered HTTP 200 with
\* exactly the outcome the engine computed; persistence is attempted only
\* after the engine has produced that outcome.
C16_PersistenceFailureHarmless ==
  /\ [](/\ (db_insert # "none") =>
             /\ result # <<>>
             /\ result = EngineOutcome
             /\ db_record = [input |-> url_or_text, result |-> result]
        /\ (Answered /\ db_insert = "failed") =>
             /\ response[1].status = 200
             /\ response[1].body = EngineOutcome)
  /\ [][(db_insert' # db_insert /\ pc \notin {"idle", "done"}) =>
          (result # <<>> /\ result' = result /\ response = None /\ response' = None)]_vars
\* C16 witness: the insert failed and the request is answered 200 with the
\* engine's outcome
C16_Witness ==
  /\ Answered
  /\ db_insert = "failed"
  /\ response[1].status = 200
  /\ response[1].body = EngineOutcome
  /\ Len(response[1].body.factors) >= 3
====
